---- MODULE Spec2Model ----
(***************************************************************************)
(* Model of the Kairos ML forecasting service                              *)
(* (services/kairos-ml/app/main.py).                                       *)
(*                                                                         *)
(* Conventions                                                             *)
(*  - Python floats are IEEE-754 doubles: sign * mant * 2^exp, an          *)
(*    infinity or nan; every operation is rounded to nearest, ties to      *)
(*    even, with gradual underflow and overflow to infinity.               *)
(*  - Python ints that hold epoch seconds are of any size (a sign and a    *)
(*    magnitude); lengths, positions, horizons and season lengths are the  *)
(*    integers of the model checker.                                       *)
(*  - A call that raises yields the record [exc |-> name of the error].    *)
(*  - The repository pins no interpreter.  sum() over floats adds from     *)
(*    left to right before CPython 3.12 and with Neumaier compensation     *)
(*    from 3.12 on: the variable python holds which one serves.            *)
(*  - A Python str is a sequence of one-character strings.                 *)
(*  - JSON values of the loosely typed config mapping are tagged records   *)
(*    (IntVal, StrVal, BoolVal, FloatVal, None).                           *)
(***************************************************************************)
EXTENDS Integers, Sequences, FiniteSets, TLC

VARIABLES req, resp, args, ret, python

vars == <<req, resp, args, ret, python>>

(***************************************************************************)
(* Bounds of the model.                                                    *)
(***************************************************************************)
MaxReqLen == 3      \* longest ds / y of a request to the endpoint
MaxHorizon == 3     \* largest horizon
MaxDs == 4          \* longest ds of a direct infer_step_seconds call
MaxY == 4           \* longest y of a direct forecaster call
MaxCallHorizon == 4 \* largest horizon of a direct forecaster call
MaxExtreme == 3     \* longest y of extreme floats of a direct trend call
MaxFar == 3         \* longest ds of far timestamps of a direct call

(***************************************************************************)
(* Program constants.                                                      *)
(***************************************************************************)
DefaultStep == 86400          \* 60 * 60 * 24
DefaultSeasonLength == 7
SecondsPerDay == 86400

(***************************************************************************)
(* Python values.                                                          *)
(***************************************************************************)
None == [t |-> "none"]
IntVal(i) == [t |-> "int", i |-> i]
StrVal(s) == [t |-> "str", s |-> s]
BoolVal(b) == [t |-> "bool", b |-> b]
FloatVal(f) == [t |-> "float", f |-> f]

Abs(x) == IF x < 0 THEN -x ELSE x
Min(a, b) == IF a < b THEN a ELSE b
Max(a, b) == IF a > b THEN a ELSE b

(***************************************************************************)
(* Natural numbers of any size: the sequence of their digits in base       *)
(* 2^15, least significant first, without leading zero digits (0 is << >>).*)
(* They carry the significands of the floats and the magnitudes of the     *)
(* ints.                                                                   *)
(***************************************************************************)
LimbBits == 15
Base == 32768

\* the smallest element of a non-empty set of integers
SetMin(S) == CHOOSE x \in S : \A y \in S : x <= y

\* the sequence f as a tuple, each element computed once
Evaluated(f) == f \o << >>

\* digit i of a, 0 outside its digits
At(a, i) == IF 1 <= i /\ i <= Len(a) THEN a[i] ELSE 0

\* a without its leading zero digits
BTrim(a) ==
    LET d == Evaluated(a)
        n == Len(d)
    IN  IF n = 0 \/ d[n] # 0 THEN d
        ELSE SubSeq(d, 1, CHOOSE k \in 0..n :
                              /\ k = 0 \/ d[k] # 0
                              /\ \A j \in (k + 1)..n : d[j] = 0)

RECURSIVE BFromNat(_)
BFromNat(n) == IF n = 0 THEN << >> ELSE <<n % Base>> \o BFromNat(n \div Base)

RECURSIVE BToNat(_)
BToNat(a) == IF a = << >> THEN 0 ELSE a[1] + Base * BToNat(Tail(a))

\* a + b: digit i receives a carry when a digit below it has a sum of
\* Base or more and every digit between them a sum of Base - 1
BAdd(a, b) ==
    IF a = << >> THEN b
    ELSE IF b = << >> THEN a
    ELSE LET n == Max(Len(a), Len(b))
             s == Evaluated([i \in 1..n |-> At(a, i) + At(b, i)])
             Carry(i) == \E j \in 1..(i - 1) :
                             /\ s[j] >= Base
                             /\ \A m \in (j + 1)..(i - 1) : s[m] = Base - 1
         IN  [i \in 1..n |-> (s[i] + (IF Carry(i) THEN 1 ELSE 0)) % Base]
               \o (IF Carry(n + 1) THEN <<1>> ELSE << >>)

\* a - b for a >= b: digit i lends when a digit below it has a negative
\* difference and every digit between them the difference 0
BSub(a, b) ==
    IF b = << >> THEN a
    ELSE LET d == Evaluated([i \in 1..Len(a) |-> a[i] - At(b, i)])
             Borrow(i) == \E j \in 1..(i - 1) :
                              /\ d[j] < 0
                              /\ \A m \in (j + 1)..(i - 1) : d[m] = 0
         IN  BTrim([i \in 1..Len(a) |->
                       (d[i] - (IF Borrow(i) THEN 1 ELSE 0)) % Base])

\* -1, 0 or 1 as a is below, equal to or above b
BCmp(a, b) ==
    IF Len(a) < Len(b) THEN -1
    ELSE IF Len(a) > Len(b) THEN 1
    ELSE IF a = b THEN 0
    ELSE IF \E i \in 1..Len(a) :
                /\ a[i] < b[i]
                /\ \A m \in (i + 1)..Len(a) : a[m] = b[m]
    THEN -1
    ELSE 1

\* a * Base^k
BShiftLimbs(a, k) == IF a = << >> THEN << >> ELSE [i \in 1..k |-> 0] \o a

RECURSIVE BColumn(_, _, _, _)
\* what the products of the digits of a with the digits 1..j of b add to
\* digit k of a * b: the low digits of the products of that place and the
\* high digits of those one place below
BColumn(a, b, k, j) ==
    IF j = 0 THEN 0
    ELSE BColumn(a, b, k, j - 1)
           + ((At(a, k + 1 - j) * b[j]) % Base)
           + ((At(a, k - j) * b[j]) \div Base)

\* a * b with b the shorter one: the columns, then their carries
BMulBy(a, b) ==
    LET v == Evaluated([k \in 1..(Len(a) + Len(b)) |->
                           BColumn(a, b, k, Len(b))])
    IN  BAdd(BTrim([k \in 1..Len(v) |-> v[k] % Base]),
             BShiftLimbs(BTrim([k \in 1..Len(v) |-> v[k] \div Base]), 1))

BMul(a, b) == IF Len(a) < Len(b) THEN BMulBy(b, a) ELSE BMulBy(a, b)

\* a * k for 0 <= k < Base
BMulSmall(a, k) == BMulBy(a, <<k>>)

\* a * 2^k and floor(a / 2^k)
BShl(a, k) ==
    LET low == 2 ^ (k % LimbBits)
    IN  IF low = 1 THEN BShiftLimbs(a, k \div LimbBits)
        ELSE BShiftLimbs(
                 BTrim([i \in 1..(Len(a) + 1) |->
                           ((At(a, i) * low) % Base)
                             + ((At(a, i - 1) * low) \div Base)]),
                 k \div LimbBits)
BShr(a, k) ==
    LET rest == SubSeq(a, k \div LimbBits + 1, Len(a))
        low == 2 ^ (k % LimbBits)
    IN  BTrim([i \in 1..Len(rest) |->
                  rest[i] \div low + (At(rest, i + 1) % low) * (Base \div low)])

RECURSIVE BitLength(_)
BitLength(n) == IF n = 0 THEN 0 ELSE 1 + BitLength(n \div 2)

BBitLen(a) ==
    IF a = << >> THEN 0
    ELSE LimbBits * (Len(a) - 1) + BitLength(a[Len(a)])

\* bit i of a (bit 0 is the lowest)
BTestBit(a, i) ==
    /\ i \div LimbBits + 1 <= Len(a)
    /\ (a[i \div LimbBits + 1] \div (2 ^ (i % LimbBits))) % 2 = 1

\* some bit of a below bit i is set
BAnyBitBelow(a, i) ==
    \/ \E k \in 1..Min(i \div LimbBits, Len(a)) : a[k] # 0
    \/ /\ i \div LimbBits + 1 <= Len(a)
       /\ a[i \div LimbBits + 1] % (2 ^ (i % LimbBits)) # 0

RECURSIVE TrailingZeros(_)
TrailingZeros(n) == IF n % 2 = 1 THEN 0 ELSE 1 + TrailingZeros(n \div 2)

\* the number of zero bits below the lowest set bit of a # 0
BTrailingZeros(a) ==
    LET lowest == SetMin({i \in 1..Len(a) : a[i] # 0})
    IN  LimbBits * (lowest - 1) + TrailingZeros(a[lowest])

RECURSIVE BFixQuotientDigit(_, _, _)
\* the largest q' <= q with b * q' <= r
BFixQuotientDigit(r, b, q) ==
    IF q > 0 /\ BCmp(BMulSmall(b, q), r) > 0
    THEN BFixQuotientDigit(r, b, q - 1)
    ELSE q

RECURSIVE BLongDivision(_, _, _, _)
\* long division of a by b (whose top digit is at least Base / 2), from
\* the top digit of a down: q is the quotient of the digits done and
\* r < b their remainder
BLongDivision(a, b, r, q) ==
    IF Len(q) = Len(a) THEN [q |-> q, r |-> r]
    ELSE LET r1 == BTrim(<<a[Len(a) - Len(q)]>> \o r)
             n == Len(b)
             top == (IF Len(r1) > n THEN r1[n + 1] * Base ELSE 0)
                      + (IF Len(r1) >= n THEN r1[n] ELSE 0)
             d == BFixQuotientDigit(r1, b, Min(Base - 1, top \div b[n]))
         IN  IF d = 0 THEN BLongDivision(a, b, r1, <<0>> \o q)
             ELSE BLongDivision(a, b, BSub(r1, BMulSmall(b, d)), <<d>> \o q)

RECURSIVE BShortDivision(_, _, _, _)
\* division of a by the single digit k, from the top digit of a down: q
\* is the quotient of the digits done and r < k their remainder
BShortDivision(a, k, r, q) ==
    IF Len(q) = Len(a) THEN [q |-> q, r |-> r]
    ELSE LET t == r * Base + a[Len(a) - Len(q)]
         IN  IF t < k THEN BShortDivision(a, k, t, <<0>> \o q)
             ELSE BShortDivision(a, k, t % k, <<t \div k>> \o q)

\* floor(a / b) for b # 0, and whether the division leaves a remainder
BDivMod(a, b) ==
    IF Len(b) = 1
    THEN LET res == BShortDivision(a, b[1], 0, << >>)
         IN  [q |-> BTrim(res.q), inexact |-> res.r # 0]
    ELSE LET s == LimbBits - BitLength(b[Len(b)])
             an == BShl(a, s)
             res == BLongDivision(an, BShl(b, s), << >>, << >>)
         IN  [q |-> BTrim(res.q), inexact |-> res.r # << >>]

(***************************************************************************)
(* Python ints: sign * mag, of any size; zero has sign 1.                  *)
(***************************************************************************)
MkLong(sign, mag) == [sign |-> IF mag = << >> THEN 1 ELSE sign, mag |-> mag]

\* the Python int of an integer of the model checker
Long(i) == MkLong(IF i < 0 THEN -1 ELSE 1, BFromNat(Abs(i)))

\* 2^k
LPow2(k) == MkLong(1, BShl(<<1>>, k))

IsLong(v) == DOMAIN v = {"sign", "mag"}

\* the integer of the model checker a Python int below 2^31 in size is
LToInt(a) == a.sign * BToNat(a.mag)

LNeg(a) == MkLong(-a.sign, a.mag)

\* ints below 2^30 in size are added, multiplied, compared and divided as
\* integers of the model checker, the others digit by digit
SmallBits == 2 * LimbBits
IsSmall(a) == BBitLen(a.mag) <= SmallBits

LAdd(a, b) ==
    IF IsSmall(a) /\ IsSmall(b) THEN Long(LToInt(a) + LToInt(b))
    ELSE IF a.sign = b.sign THEN MkLong(a.sign, BAdd(a.mag, b.mag))
    ELSE IF BCmp(a.mag, b.mag) >= 0 THEN MkLong(a.sign, BSub(a.mag, b.mag))
    ELSE MkLong(b.sign, BSub(b.mag, a.mag))

LSub(a, b) == LAdd(a, LNeg(b))

LMul(a, b) ==
    IF BBitLen(a.mag) + BBitLen(b.mag) <= SmallBits
    THEN Long(LToInt(a) * LToInt(b))
    ELSE MkLong(a.sign * b.sign, BMul(a.mag, b.mag))

\* -1, 0 or 1 as a is below, equal to or above b
LCmp(a, b) ==
    IF IsSmall(a) /\ IsSmall(b)
    THEN (IF LToInt(a) < LToInt(b) THEN -1
          ELSE IF LToInt(a) > LToInt(b) THEN 1 ELSE 0)
    ELSE IF a.sign # b.sign THEN a.sign
    ELSE a.sign * BCmp(a.mag, b.mag)

\* divmod(a, b) for b > 0: the quotient rounded toward minus infinity
\* (LFloor, from the quotient d of the magnitudes) and the remainder in
\* 0..b-1 (LWithRemainder)
LFloor(sign, d) ==
    IF sign = 1 THEN MkLong(1, d.q)
    ELSE MkLong(-1, IF d.inexact THEN BAdd(d.q, <<1>>) ELSE d.q)
LWithRemainder(a, b, q) == [q |-> q, r |-> LSub(a, LMul(q, b))]
LDivMod(a, b) ==
    IF IsSmall(a) /\ IsSmall(b)
    THEN [q |-> Long(LToInt(a) \div LToInt(b)),
          r |-> Long(LToInt(a) % LToInt(b))]
    ELSE LWithRemainder(a, b, LFloor(a.sign, BDivMod(a.mag, b.mag)))

(***************************************************************************)
(* Python floats: IEEE-754 binary64, round to nearest, ties to even.  A    *)
(* finite float is sign * mant * 2^exp with mant odd (or zero, with        *)
(* exp = 0), so that equal floats are equal records.  mant has at most 53  *)
(* bits, exp is at least -1074 (below 2^-1022 the floats are subnormal and *)
(* carry fewer bits), the size stays below 2^1024; a result beyond that is *)
(* an infinity, an undefined result is nan.                                *)
(***************************************************************************)
MantBits == 53
MinExp == -1074
MaxExp == 1024

Zero(sign) == [cls |-> "finite", sign |-> sign, mant |-> << >>, exp |-> 0]
Inf(sign) == [cls |-> "inf", sign |-> sign, mant |-> << >>, exp |-> 0]
NaN == [cls |-> "nan", sign |-> 1, mant |-> << >>, exp |-> 0]

IsNaN(a) == a.cls = "nan"
IsInf(a) == a.cls = "inf"
IsFinite(a) == a.cls = "finite"
IsZero(a) == IsFinite(a) /\ a.mant = << >>

\* sign * n * 2^e as a record, when it needs no rounding
Float(sign, n, e) ==
    IF n = << >> THEN Zero(sign)
    ELSE IF BBitLen(n) + e > MaxExp THEN Inf(sign)
    ELSE LET z == BTrailingZeros(n)
         IN  [cls |-> "finite", sign |-> sign,
              mant |-> BShr(n, z), exp |-> e + z]

\* the float nearest to sign * n * 2^e (plus, if inexact, a positive amount
\* below 2^e that n leaves out; n then has more than 53 bits), ties to
\* even: the bits beyond the 53rd and those below 2^-1074 are rounded away
FRound(sign, n, e, inexact) ==
    LET drop == Max(BBitLen(n) - MantBits, MinExp - e)
    IN  IF drop <= 0 THEN Float(sign, n, e)
        ELSE LET q == BShr(n, drop)
                 up == /\ BTestBit(n, drop - 1)
                       /\ \/ BAnyBitBelow(n, drop - 1)
                          \/ inexact
                          \/ (q # << >> /\ q[1] % 2 = 1)
             IN  Float(sign, IF up THEN BAdd(q, <<1>>) ELSE q, e + drop)

\* float(i) of an int below 2^31 in size
FromInt(i) == Float(IF i < 0 THEN -1 ELSE 1, BFromNat(Abs(i)), 0)

FNeg(a) == IF IsNaN(a) THEN a ELSE [a EXCEPT !.sign = -a.sign]

\* the highest power of two a finite non-zero float stays below
TopExp(a) == BBitLen(a.mant) + a.exp

\* a + b for finite non-zero a and b, of which b is no larger than the
\* 55th bit below the lowest bit of a: b only decides the rounding
FAddFar(a, b) ==
    LET n == BShl(a.mant, MantBits + 2)
    IN  FRound(a.sign, IF a.sign = b.sign THEN n ELSE BSub(n, <<1>>),
               a.exp - (MantBits + 2), TRUE)

\* a + b for finite non-zero a and b: the exact sum, rounded
FAddNear(a, b) ==
    LET e == Min(a.exp, b.exp)
        na == BShl(a.mant, a.exp - e)
        nb == BShl(b.mant, b.exp - e)
        c == BCmp(na, nb)
    IN  IF a.sign = b.sign THEN FRound(a.sign, BAdd(na, nb), e, FALSE)
        ELSE IF c = 0 THEN Zero(1)
        ELSE IF c > 0 THEN FRound(a.sign, BSub(na, nb), e, FALSE)
        ELSE FRound(b.sign, BSub(nb, na), e, FALSE)

\* a + b
FAdd(a, b) ==
    IF IsNaN(a) \/ IsNaN(b) THEN NaN
    ELSE IF IsInf(a) THEN (IF IsInf(b) /\ b.sign # a.sign THEN NaN ELSE a)
    ELSE IF IsInf(b) THEN b
    ELSE IF IsZero(a) /\ IsZero(b)
    THEN (IF a.sign = -1 /\ b.sign = -1 THEN a ELSE Zero(1))
    ELSE IF IsZero(a) THEN b
    ELSE IF IsZero(b) THEN a
    ELSE IF a.exp - TopExp(b) >= MantBits + 2 THEN FAddFar(a, b)
    ELSE IF b.exp - TopExp(a) >= MantBits + 2 THEN FAddFar(b, a)
    ELSE FAddNear(a, b)

\* a - b
FSub(a, b) == FAdd(a, FNeg(b))

\* a * b
FMul(a, b) ==
    IF IsNaN(a) \/ IsNaN(b) THEN NaN
    ELSE IF IsInf(a) \/ IsInf(b)
    THEN (IF IsZero(a) \/ IsZero(b) THEN NaN ELSE Inf(a.sign * b.sign))
    ELSE FRound(a.sign * b.sign, BMul(a.mant, b.mant), a.exp + b.exp, FALSE)

ZeroDivisionError == [exc |-> "ZeroDivisionError"]

\* the float nearest to sign * (d.q + fraction) * 2^e, d being the result
\* of a division and dropped telling that its dividend had lost low bits
FRoundQuotient(sign, d, e, dropped) ==
    FRound(sign, d.q, e, d.inexact \/ dropped)

\* a / b: the quotient is computed to at least 55 bits, which with the
\* remainder decides the rounding
FDiv(a, b) ==
    IF IsZero(b) THEN ZeroDivisionError
    ELSE IF IsNaN(a) \/ IsNaN(b) THEN NaN
    ELSE IF IsInf(a) THEN (IF IsInf(b) THEN NaN ELSE Inf(a.sign * b.sign))
    ELSE IF IsInf(b) \/ IsZero(a) THEN Zero(a.sign * b.sign)
    ELSE LET k == Max(0, MantBits + 2 + BBitLen(b.mant) - BBitLen(a.mant))
         IN  FRoundQuotient(a.sign * b.sign,
                            BDivMod(BShl(a.mant, k), b.mant),
                            a.exp - b.exp - k, FALSE)

\* a > 0
FPos(a) == ~IsNaN(a) /\ a.sign = 1 /\ ~IsZero(a)

\* fabs(a) >= fabs(b); false when either is nan
FAbsGe(a, b) ==
    /\ ~IsNaN(a) /\ ~IsNaN(b)
    /\ \/ IsInf(a)
       \/ IsZero(b)
       \/ /\ IsFinite(b) /\ ~IsZero(a)
          /\ \/ TopExp(a) > TopExp(b)
             \/ /\ TopExp(a) = TopExp(b)
                /\ LET e == Min(a.exp, b.exp)
                   IN  BCmp(BShl(a.mant, a.exp - e),
                            BShl(b.mant, b.exp - e)) >= 0

RECURSIVE FSumFrom(_, _)
\* sum() before CPython 3.12: the elements are added to the running total
\* from left to right
FSumFrom(s, acc) ==
    IF s = << >> THEN acc ELSE FSumFrom(Tail(s), FAdd(acc, Head(s)))

\* what the addition t = f + x rounds away: (f - t) + x when f is the
\* larger in size, (x - t) + f otherwise
FSumLost(f, x, t) ==
    IF FAbsGe(f, x) THEN FAdd(FSub(f, t), x) ELSE FAdd(FSub(x, t), f)

RECURSIVE FSumCompensated(_, _, _)
RECURSIVE FSumStep(_, _, _, _)
\* one round of the loop: t is the new running total f + Head(s)
FSumStep(s, f, c, t) ==
    FSumCompensated(Tail(s), t, FAdd(c, FSumLost(f, Head(s), t)))

\* sum() from CPython 3.12 on (Neumaier): next to the running total f, c
\* collects what each addition rounds away; it is added at the end unless
\* it is zero, an infinity or nan
FSumCompensated(s, f, c) ==
    IF s = << >>
    THEN (IF IsFinite(c) /\ ~IsZero(c) THEN FAdd(f, c) ELSE f)
    ELSE FSumStep(s, f, c, FAdd(f, Head(s)))

Interpreters == {"3.11", "3.12"}

\* sum(y) of a non-empty list of floats: the first element is added to the
\* int 0, the others (FSumAfter) by the float loop of the interpreter
FSumAfter(first, rest) ==
    IF python = "3.12" THEN FSumCompensated(rest, first, Zero(1))
    ELSE FSumFrom(rest, first)
sum(y) == FSumAfter(FAdd(FromInt(0), Head(y)), Tail(y))

ValueError == [exc |-> "ValueError"]
OverflowError == [exc |-> "OverflowError"]
OSError == [exc |-> "OSError"]

Raised(v) == DOMAIN v = {"exc"}

\* int(x) of a float: truncation toward zero; nan and the infinities have no
\* integer
IntOfFloat(a) ==
    IF IsNaN(a) THEN ValueError
    ELSE IF IsInf(a) THEN OverflowError
    ELSE MkLong(a.sign, IF a.exp >= 0 THEN BShl(a.mant, a.exp)
                        ELSE BShr(a.mant, -a.exp))

\* the float of a true division of ints, which raises rather than yield
\* an infinity
FloatOrOverflow(f) == IF IsInf(f) THEN OverflowError ELSE f

\* p / q of two ints (true division): the float nearest to the exact
\* quotient.  p is first scaled by a power of two (the bits a shift to the
\* right drops are remembered as inexact) so that the quotient has 55 to 57
\* bits, which with the remainder decide the rounding; OverflowError when
\* that float would be an infinity
IntTrueDiv(p, q) ==
    IF q.mag = << >> THEN ZeroDivisionError
    ELSE IF p.mag = << >> THEN Zero(p.sign * q.sign)
    ELSE LET shift == BBitLen(p.mag) - BBitLen(q.mag) - (MantBits + 2)
             x == IF shift <= 0 THEN BShl(p.mag, -shift)
                  ELSE BShr(p.mag, shift)
         IN  FloatOrOverflow(
                 FRoundQuotient(p.sign * q.sign, BDivMod(x, q.mag), shift,
                                shift > 0 /\ BAnyBitBelow(p.mag, shift)))

RECURSIVE Insert(_, _)
Insert(x, s) ==
    IF s = << >> THEN <<x>>
    ELSE IF LCmp(x, Head(s)) <= 0 THEN <<x>> \o s
    ELSE <<Head(s)>> \o Insert(x, Tail(s))

\* list.sort() on a list of ints
RECURSIVE Sorted(_)
Sorted(s) == IF s = << >> THEN << >> ELSE Insert(Head(s), Sorted(Tail(s)))

(***************************************************************************)
(* iso_from_seconds: datetime.fromtimestamp(seconds, tz=utc)               *)
(*   .replace(microsecond=0).isoformat().replace("+00:00", "Z")            *)
(***************************************************************************)
Digit(d) ==
    CASE d = 0 -> "0" [] d = 1 -> "1" [] d = 2 -> "2" [] d = 3 -> "3"
      [] d = 4 -> "4" [] d = 5 -> "5" [] d = 6 -> "6" [] d = 7 -> "7"
      [] d = 8 -> "8" [] d = 9 -> "9"

Pad2(n) == <<Digit(n \div 10), Digit(n % 10)>>

Pad4(n) ==
    <<Digit(n \div 1000), Digit((n \div 100) % 10),
      Digit((n \div 10) % 10), Digit(n % 10)>>

\* the date of day z.r (0..146096) of the 400-year era z.q, the eras
\* counted from 0000-03-01; the year is an int of any size
CivilFromEra(z) ==
    LET era == z.q
        doe == LToInt(z.r)
        yoe == (doe - doe \div 1460 + doe \div 36524 - doe \div 146096) \div 365
        doy == doe - (365 * yoe + yoe \div 4 - yoe \div 100)
        mp == (5 * doy + 2) \div 153
        d == doy - (153 * mp + 2) \div 5 + 1
        m == IF mp < 10 THEN mp + 3 ELSE mp - 9
        y == LAdd(LMul(era, Long(400)),
                  Long(yoe + (IF m <= 2 THEN 1 ELSE 0)))
    IN  [year |-> y, month |-> m, day |-> d]

\* proleptic Gregorian date of a day count relative to 1970-01-01
CivilFromDays(days) ==
    CivilFromEra(LDivMod(LAdd(days, Long(719468)), Long(146097)))

\* datetime.MINYEAR and datetime.MAXYEAR
MinYear == 1
MaxYear == 9999

\* the C types of a 64-bit Linux build: time_t has 64 bits, the tm_year
\* field of struct tm (the year minus 1900) is an int of 32 bits
TimeBits == 64
YearBits == 32
TmYearBase == 1900

\* a fits a signed C integer of the given number of bits: it is below
\* 2^(bits - 1) in size, or is -2^(bits - 1)
FitsSigned(a, bits) ==
    \/ BBitLen(a.mag) < bits
    \/ a = LNeg(LPow2(bits - 1))

\* the timestamp of second sod of the day on the date: OSError when
\* gmtime cannot hold the year, ValueError when the year is outside
\* 1..9999
IsoFormat(date, sod) ==
    IF ~FitsSigned(LSub(date.year, Long(TmYearBase)), YearBits)
    THEN OSError
    ELSE IF \/ LCmp(date.year, Long(MinYear)) < 0
            \/ LCmp(date.year, Long(MaxYear)) > 0
    THEN ValueError
    ELSE Pad4(LToInt(date.year)) \o <<"-">> \o Pad2(date.month)
           \o <<"-">> \o Pad2(date.day) \o <<"T">>
           \o Pad2(sod \div 3600) \o <<":">>
           \o Pad2((sod \div 60) % 60) \o <<":">>
           \o Pad2(sod % 60) \o <<"Z">>

\* the timestamp of second day.r of the day numbered day.q from 1970-01-01
IsoOfDay(day) == IsoFormat(CivilFromDays(day.q), LToInt(day.r))

\* OverflowError when seconds does not fit time_t, else the timestamp or
\* the error of the date
iso_from_seconds(seconds) ==
    IF ~FitsSigned(seconds, TimeBits) THEN OverflowError
    ELSE IsoOfDay(LDivMod(seconds, Long(SecondsPerDay)))

(***************************************************************************)
(* infer_step_seconds                                                      *)
(***************************************************************************)
RECURSIVE PositiveDiffs(_, _)
\* the loop of lines 62-66 from index i (1-based position of ds[i]) onward
PositiveDiffs(ds, i) ==
    IF i > Len(ds) THEN << >>
    ELSE LET diff == LSub(ds[i], ds[i - 1])
         IN  (IF LCmp(diff, Long(0)) > 0 THEN <<diff>> ELSE << >>)
               \o PositiveDiffs(ds, i + 1)

RECURSIVE AllDiffs(_, _)
AllDiffs(ds, i) ==
    IF i > Len(ds) THEN << >>
    ELSE <<LSub(ds[i], ds[i - 1])>> \o AllDiffs(ds, i + 1)

\* int((a + b) / 2): the true division yields a float (OverflowError when
\* the quotient is beyond the floats), which int() truncates
IntOfQuotient(half) == IF Raised(half) THEN half ELSE IntOfFloat(half)
Midpoint(a, b) == IntOfQuotient(IntTrueDiv(LAdd(a, b), Long(2)))

\* mutant: the differences are not filtered (no "if diff > 0")
infer_step_seconds_Unfiltered(ds) ==
    IF Len(ds) < 2 THEN Long(DefaultStep)
    ELSE LET diffs == AllDiffs(ds, 2)
         IN  IF diffs = << >> THEN Long(DefaultStep)
             ELSE LET sorted == Sorted(diffs)
                      mid == Len(sorted) \div 2
                  IN  IF Len(sorted) % 2 = 1 THEN sorted[mid + 1]
                      ELSE Midpoint(sorted[mid], sorted[mid + 1])

\* the step as an int, or the OverflowError of the division
infer_step_seconds(ds) ==
    IF Len(ds) < 2 THEN Long(DefaultStep)
    ELSE LET diffs == PositiveDiffs(ds, 2)
         IN  IF diffs = << >> THEN Long(DefaultStep)
             ELSE LET sorted == Sorted(diffs)
                      mid == Len(sorted) \div 2
                  IN  IF Len(sorted) % 2 = 1 THEN sorted[mid + 1]
                      ELSE Midpoint(sorted[mid], sorted[mid + 1])

(***************************************************************************)
(* forecast_seasonal_naive                                                 *)
(***************************************************************************)
\* mutant: a season length below 1 is refused with an empty result
forecast_seasonal_naive_EmptyBelowOne(y, horizon, season_length) ==
    IF y = << >> \/ season_length < 1 THEN << >>
    ELSE IF Len(y) < season_length
         THEN [i \in 1..horizon |-> y[Len(y)]]
         ELSE LET window == SubSeq(y, Len(y) - season_length + 1, Len(y))
              IN  [i \in 1..horizon |-> window[((i - 1) % season_length) + 1]]

\* mutant: the window is the first season_length values (y[:season_length])
forecast_seasonal_naive_HeadWindow(y, horizon, season_length) ==
    IF y = << >> THEN << >>
    ELSE LET sl == IF season_length < 1 THEN 1 ELSE season_length
         IN  IF Len(y) < sl
             THEN [i \in 1..horizon |-> y[Len(y)]]
             ELSE LET window == SubSeq(y, 1, sl)
                  IN  [i \in 1..horizon |-> window[((i - 1) % sl) + 1]]

\* mutant: a short history repeats the first value (y[0])
forecast_seasonal_naive_FirstValue(y, horizon, season_length) ==
    IF y = << >> THEN << >>
    ELSE LET sl == IF season_length < 1 THEN 1 ELSE season_length
         IN  IF Len(y) < sl
             THEN [i \in 1..horizon |-> y[1]]
             ELSE LET window == SubSeq(y, Len(y) - sl + 1, Len(y))
                  IN  [i \in 1..horizon |-> window[((i - 1) % sl) + 1]]

forecast_seasonal_naive(y, horizon, season_length) ==
    IF y = << >> THEN << >>
    ELSE LET sl == IF season_length < 1 THEN 1 ELSE season_length
         IN  IF Len(y) < sl
             THEN [i \in 1..horizon |-> y[Len(y)]]
             ELSE LET window == SubSeq(y, Len(y) - sl + 1, Len(y))
                  IN  [i \in 1..horizon |-> window[((i - 1) % sl) + 1]]

(***************************************************************************)
(* forecast_linear_trend                                                   *)
(***************************************************************************)
\* dx * dx
FSquare(dx) == FMul(dx, dx)

RECURSIVE VarAcc(_, _, _, _)
\* var after the loop of lines 108-111 has run from index i on, var being
\* its value before
VarAcc(n, x_mean, i, var) ==
    IF i >= n THEN var
    ELSE VarAcc(n, x_mean, i + 1,
                FAdd(var, FSquare(FSub(FromInt(i), x_mean))))

RECURSIVE CovAcc(_, _, _, _, _)
\* cov after the loop of lines 108-111 has run from index i on
CovAcc(y, x_mean, y_mean, i, cov) ==
    IF i >= Len(y) THEN cov
    ELSE CovAcc(y, x_mean, y_mean, i + 1,
                FAdd(cov, FMul(FSub(FromInt(i), x_mean),
                               FSub(y[i + 1], y_mean))))

\* line 113: slope = cov / var if var > 0 else 0.0
TrendSlope(var, cov) == IF FPos(var) THEN FDiv(cov, var) ELSE FromInt(0)

\* lines 114-119: the predictions at the positions first, first + 1, ...
TrendPoints(first, horizon, x_mean, y_mean, slope) ==
    LET intercept == FSub(y_mean, FMul(slope, x_mean))
    IN  [j \in 1..horizon |->
            FAdd(intercept, FMul(slope, FromInt(first + (j - 1))))]

\* lines 106-119 for the means of lines 104-105
TrendLine(y, first, horizon, x_mean, y_mean) ==
    TrendPoints(first, horizon, x_mean, y_mean,
                TrendSlope(VarAcc(Len(y), x_mean, 0, FromInt(0)),
                           CovAcc(y, x_mean, y_mean, 0, FromInt(0))))

\* mutant: the future positions start at n + 1 (x = n + j + 1)
forecast_linear_trend_Shifted(y, horizon) ==
    IF y = << >> THEN << >>
    ELSE LET n == Len(y)
         IN  IF n = 1 THEN [j \in 1..horizon |-> y[1]]
             ELSE TrendLine(y, n + 1, horizon,
                            FDiv(FromInt(n - 1), FromInt(2)),
                            FDiv(sum(y), FromInt(n)))

forecast_linear_trend(y, horizon) ==
    IF y = << >> THEN << >>
    ELSE LET n == Len(y)
         IN  IF n = 1 THEN [j \in 1..horizon |-> y[1]]
             ELSE TrendLine(y, n, horizon,
                            FDiv(FromInt(n - 1), FromInt(2)),
                            FDiv(sum(y), FromInt(n)))

(***************************************************************************)
(* The config mapping and int() of a config value                          *)
(***************************************************************************)
IsDigit(c) == c \in {"0", "1", "2", "3", "4", "5", "6", "7", "8", "9"}

DigitValue(c) ==
    CASE c = "0" -> 0 [] c = "1" -> 1 [] c = "2" -> 2 [] c = "3" -> 3
      [] c = "4" -> 4 [] c = "5" -> 5 [] c = "6" -> 6 [] c = "7" -> 7
      [] c = "8" -> 8 [] c = "9" -> 9

RECURSIVE DecimalValue(_, _)
\* value of a run of decimal digits, acc being the value read so far
DecimalValue(cs, acc) ==
    IF cs = << >> THEN acc
    ELSE DecimalValue(Tail(cs), 10 * acc + DigitValue(Head(cs)))

\* the characters of code point below 256 that have no escape in a string
\* and that int() strips: VT (U+000B), NEL (U+0085), NBSP (U+00A0)
VT == ""
NEL == ""
NBSP == " "
Whitespace == {" ", "\t", "\n", "\r", "\f", VT, NEL, NBSP}

RECURSIVE LStrip(_)
LStrip(s) ==
    IF s # << >> /\ Head(s) \in Whitespace THEN LStrip(Tail(s)) ELSE s

RECURSIVE RStrip(_)
RStrip(s) ==
    IF s # << >> /\ s[Len(s)] \in Whitespace
    THEN RStrip(SubSeq(s, 1, Len(s) - 1)) ELSE s

\* decimal digits, single underscores allowed between two digits
IsDigitRun(cs) ==
    /\ cs # << >>
    /\ IsDigit(cs[1])
    /\ IsDigit(cs[Len(cs)])
    /\ \A k \in 1..Len(cs) :
          \/ IsDigit(cs[k])
          \/ cs[k] = "_" /\ IsDigit(cs[k - 1]) /\ IsDigit(cs[k + 1])

\* int(v): an int is itself, a bool is 0 or 1, a float is truncated toward
\* zero (the season lengths sent as floats are below 2^31 in size), a str
\* is read as a base-10 literal (surrounding whitespace stripped, optional
\* sign, digits with single underscores between them; ValueError
\* otherwise); None and any other value raise TypeError
PyInt(v) ==
    CASE v.t = "int" -> [ok |-> TRUE, value |-> v.i]
      [] v.t = "bool" -> [ok |-> TRUE, value |-> IF v.b THEN 1 ELSE 0]
      [] v.t = "float" ->
            IF IsFinite(v.f)
            THEN [ok |-> TRUE, value |-> LToInt(IntOfFloat(v.f))]
            ELSE [ok |-> FALSE, exc |-> IntOfFloat(v.f).exc]
      [] v.t = "str" ->
            LET body == RStrip(LStrip(v.s))
                signed == body # << >> /\ Head(body) \in {"-", "+"}
                digits == IF signed THEN Tail(body) ELSE body
                value == DecimalValue(SelectSeq(digits, IsDigit), 0)
            IN  IF IsDigitRun(digits)
                THEN [ok |-> TRUE,
                      value |-> IF signed /\ Head(body) = "-"
                                THEN -value ELSE value]
                ELSE [ok |-> FALSE, exc |-> "ValueError"]
      [] OTHER -> [ok |-> FALSE, exc |-> "TypeError"]

\* mutant: the value is read only from a mapping that holds just that key
ConfigGet_SoleKey(config, key, default) ==
    IF config = None THEN default
    ELSE IF DOMAIN config = {key} THEN config[key] ELSE default

\* mutant: the configured value is never read
ConfigGet_AlwaysDefault(config, key, default) == default

\* (config or {}).get(key, default); a dict is a function on its keys
ConfigGet(config, key, default) ==
    IF config = None THEN default
    ELSE IF key \in DOMAIN config THEN config[key] ELSE default

(***************************************************************************)
(* ForecastRequest: what pydantic checks on receipt                        *)
(***************************************************************************)
ModelName == {"ETS", "PROPHET"}

\* mutant: horizon is not constrained (no ge=1)
ForecastRequest_AnyHorizon(r) ==
    IF r.model \in ModelName THEN {} ELSE {"model"}

\* the fields of the request that fail validation
ForecastRequest(r) ==
    (IF r.model \in ModelName THEN {} ELSE {"model"})
      \cup (IF r.horizon >= 1 THEN {} ELSE {"horizon"})

(***************************************************************************)
(* forecast: the handler of POST /v1/forecast                              *)
(***************************************************************************)
HTTPException(status, detail) == [status |-> status, detail |-> detail]

InternalError(exc) == [status |-> 500, exc |-> exc]

ForecastPoint(t, yhat) ==
    [t |-> t, yhat |-> yhat, yhatLower |-> None, yhatUpper |-> None,
     isFuture |-> TRUE]

ForecastMeta(r) ==
    [horizon |-> r.horizon,
     historyCount |-> Len(r.ds),
     intervalLevel |-> None,
     metrics |-> [sampleCount |-> 0, mae |-> None, rmse |-> None,
                  mape |-> None]]

RECURSIVE PointsFrom(_, _, _, _, _)
RECURSIVE PointStamped(_, _, _, _, _, _)
\* one round of the loop of lines 147-156: t is the timestamp of the next
\* point, or the error of iso_from_seconds, which ends the request
PointStamped(r, step, preds, start, points, t) ==
    IF Raised(t) THEN InternalError(t.exc)
    ELSE PointsFrom(r, step, preds, start,
                    Append(points, ForecastPoint(t, preds[Len(points) + 1])))

\* lines 146-166: the points are appended in order, the i-th stamped
\* start + i - 1 steps after the last supplied timestamp
PointsFrom(r, step, preds, start, points) ==
    IF Len(points) = Len(preds)
    THEN [status |-> 200, points |-> points, meta |-> ForecastMeta(r)]
    ELSE PointStamped(r, step, preds, start, points,
             iso_from_seconds(
                 LAdd(r.ds[Len(r.ds)],
                      LMul(step, Long(start + Len(points))))))

\* mutant: the offsets start at 0 (enumerate without start=1)
ForecastResponse_ZeroBased(r, step, preds) ==
    PointsFrom(r, step, preds, 0, << >>)

\* for i, yhat in enumerate(preds, start=1)
ForecastResponse(r, step, preds) ==
    PointsFrom(r, step, preds, 1, << >>)

\* lines 137-166 for the season length int() has returned or refused
SeasonalResponse(r, step, season_length) ==
    IF season_length.ok
    THEN ForecastResponse(r, step,
             forecast_seasonal_naive(r.y, r.horizon, season_length.value))
    ELSE InternalError(season_length.exc)

\* lines 137-166 for the step of line 135, or the error it raised
Dispatch(r, step) ==
    IF Raised(step) THEN InternalError(step.exc)
    ELSE IF r.model = "ETS"
    THEN SeasonalResponse(r, step,
             PyInt(ConfigGet(r.config, "seasonLength",
                             IntVal(DefaultSeasonLength))))
    ELSE IF r.model = "PROPHET"
    THEN ForecastResponse(r, step, forecast_linear_trend(r.y, r.horizon))
    ELSE HTTPException(400, "Unsupported model: " \o r.model)

\* the handler: an HTTPException it raises, the internal error of an
\* exception it does not catch, or the response it returns
forecast(r) ==
    IF Len(r.ds) # Len(r.y)
    THEN HTTPException(400, "Training data length mismatch.")
    ELSE IF Len(r.ds) < 2
    THEN HTTPException(400, "At least 2 observations are required.")
    ELSE Dispatch(r, infer_step_seconds(r.ds))

\* the response as the framework sends it: a nan or an infinity has no
\* JSON form, so that rendering such a yhat fails with ValueError
JSONResponse(response) ==
    IF /\ response.status = 200
       /\ \E k \in 1..Len(response.points) :
              ~IsFinite(response.points[k].yhat)
    THEN InternalError("ValueError")
    ELSE response

(***************************************************************************)
(* Inputs                                                                  *)
(***************************************************************************)
SeqUpTo(S, n) == UNION {[1..k -> S] : k \in 0..n}

Timestamps == {Long(0), Long(100), Long(86400)}
Values == {FromInt(1), FromInt(3)}
Selectors == {"ETS", "PROPHET", "ARIMA"}
SeasonLengths ==
    {IntVal(0), IntVal(1), IntVal(2), StrVal(<<"2">>),
     StrVal(<<NBSP, "1", "_", "0", "\n">>), StrVal(<<"a", "b", "c">>),
     BoolVal(TRUE), FloatVal(IntTrueDiv(Long(5), Long(2))), None}
Configs ==
    {None, << >>}
      \cup {[k \in {"other"} |-> IntVal(1)]}
      \cup {[k \in {"seasonLength"} |-> v] : v \in SeasonLengths}
      \cup {[k \in {"seasonLength", "other"} |->
                IF k = "other" THEN IntVal(1) ELSE v] : v \in SeasonLengths}

\* a configuration that int() would refuse and a valid one with a second
\* key, for the requests that never read the season length
OtherConfigs ==
    {[k \in {"seasonLength"} |-> StrVal(<<"a", "b", "c">>)],
     [k \in {"seasonLength", "other"} |->
         IF k = "other" THEN IntVal(1) ELSE IntVal(2)]}

\* requests of every shape, valid or not, sent without a configuration
Requests ==
    [model : Selectors,
     ds : SeqUpTo(Timestamps, MaxReqLen),
     y : SeqUpTo(Values, MaxReqLen),
     horizon : 0..MaxHorizon,
     config : {None}]

\* every configuration on the seasonal path and the other configurations
\* on the other paths, over a sorted and an unsorted history
ConfiguredHistories ==
    {<<Long(0), Long(86400)>>, <<Long(86400), Long(0), Long(100)>>}
ConfigRequests ==
    UNION {[model : {m},
            ds : {ds},
            y : [1..Len(ds) -> Values],
            horizon : 0..MaxHorizon,
            config : IF m = "ETS" THEN Configs ELSE OtherConfigs] :
           m \in Selectors, ds \in ConfiguredHistories}

\* ETS histories as long as the default season and one longer, sampled
\* daily from 1970-01-01 or from 2000-02-22 (so that the projection crosses
\* the leap day of 2000), the values rising or alternating
DailyStarts == {0, 951177600}
DailyRequests ==
    UNION {[model : {"ETS"},
            ds : {[k \in 1..n |-> Long(start + SecondsPerDay * (k - 1))] :
                     start \in DailyStarts},
            y : {[k \in 1..n |-> FromInt(k)],
                 [k \in 1..n |-> FromInt(1 + 2 * (k % 2))]},
            horizon : 0..MaxHorizon,
            config : Configs] :
           n \in {DefaultSeasonLength, DefaultSeasonLength + 1}}

\* the ends of the float range: sys.float_info.max = (2^53 - 1) * 2^971,
\* its negative, and the smallest subnormal 2^-1074, next to 1.0
Largest == Float(1, BSub(BShl(<<1>>, MantBits), <<1>>), MaxExp - MantBits)
Smallest == Float(1, <<1>>, MinExp)
ExtremeValues == {Largest, FNeg(Largest), Smallest, FromInt(1)}

\* the tenths 0.1, 0.2 and 0.3, which are no binary fractions
Tenths == {FDiv(FromInt(v), FromInt(10)) : v \in 1..3}

\* the first and the last second datetime holds: 0001-01-01T00:00:00Z and
\* 9999-12-31T23:59:59Z
FirstSecond == LMul(Long(-719162), Long(SecondsPerDay))
LastSecond == LSub(LMul(Long(2932897), Long(SecondsPerDay)), Long(1))

\* histories at and beyond the ends of the calendar, of time_t and of the
\* floats: the projection stays inside the calendar up to the first or
\* second point, leaves it, leaves what gmtime and time_t hold, or the
\* step is a mean that the floats round or cannot hold
FarHistories ==
    {<<Long(0), LastSecond>>,
     <<LSub(LastSecond, Long(2 * SecondsPerDay)),
       LSub(LastSecond, Long(SecondsPerDay))>>,
     <<LSub(FirstSecond, Long(2)), LSub(FirstSecond, Long(1))>>,
     <<LSub(FirstSecond, Long(2)), LSub(FirstSecond, Long(2))>>,
     <<Long(0), LPow2(60)>>,
     <<Long(0), LPow2(62)>>,
     <<LNeg(LPow2(64)), LNeg(LPow2(63)), Long(0)>>,
     <<Long(0), LPow2(53), LAdd(LPow2(54), Long(3))>>,
     <<Long(0), LPow2(MaxExp), LMul(Long(3), LPow2(MaxExp))>>}

FarRequests ==
    UNION {[model : Selectors,
            ds : {ds},
            y : [1..Len(ds) -> {FromInt(1), Largest}],
            horizon : 1..MaxHorizon,
            config : {None}] : ds \in FarHistories}

\* trend requests over the tenths, whose sum depends on the interpreter
TenthRequests ==
    [model : {"PROPHET"},
     ds : {<<Long(0), Long(86400), Long(172800)>>},
     y : [1..3 -> Tenths],
     horizon : 1..MaxHorizon,
     config : {None}]

NoRequest == [model |-> "none"]
NoResponse == [status |-> 0]
NoCall == [fn |-> "none"]
NoReturn == [done |-> FALSE]
Return(v) == [done |-> TRUE, value |-> v]

(***************************************************************************)
(* The endpoint: one request is received and answered                      *)
(***************************************************************************)
\* the interpreter matters on the trend path only, which alone calls sum()
Init ==
    /\ req \in Requests \cup ConfigRequests \cup DailyRequests
                 \cup FarRequests \cup TenthRequests
    /\ resp = NoResponse
    /\ args = NoCall
    /\ ret = NoReturn
    /\ python \in (IF req.model = "PROPHET" THEN Interpreters ELSE {"3.11"})

PostForecast ==
    /\ req # NoRequest
    /\ resp = NoResponse
    /\ resp' = (IF ForecastRequest(req) # {}
                THEN HTTPException(422, ForecastRequest(req))
                ELSE JSONResponse(forecast(req)))
    /\ UNCHANGED <<req, args, ret, python>>

Next == PostForecast

Spec == Init /\ [][Next]_vars

(***************************************************************************)
(* Direct calls of the pure functions                                      *)
(***************************************************************************)
DsValues == {Long(v) : v \in {0, 1, 3, 4, 86400, 172800, 345600}}
YValues == {FromInt(v) : v \in 1..5}
TrendValues == {FromInt(v) : v \in 1..4}
SeasonLengthArgs == (-1..(MaxY + 1)) \cup {DefaultSeasonLength}

\* timestamps whose differences have sums beyond 2^53, where the floats
\* are more than 1 apart, and beyond the floats
FarDsValues ==
    {Long(0), LPow2(MantBits), LAdd(LPow2(MantBits + 1), Long(3)),
     LAdd(LPow2(MantBits + 2), Long(2)), LPow2(MaxExp),
     LMul(Long(3), LPow2(MaxExp))}

InitInfer ==
    /\ args \in [fn : {"infer_step_seconds"},
                 ds : SeqUpTo(DsValues, MaxDs)
                        \cup SeqUpTo(FarDsValues, MaxFar)]
    /\ ret = NoReturn
    /\ req = NoRequest
    /\ resp = NoResponse
    /\ python \in Interpreters

CallInferStep ==
    /\ args.fn = "infer_step_seconds"
    /\ ret = NoReturn
    /\ ret' = Return(infer_step_seconds(args.ds))
    /\ UNCHANGED <<req, resp, args, python>>

NextInfer == CallInferStep

SpecInfer == InitInfer /\ [][NextInfer]_vars

InitSeasonal ==
    /\ args \in [fn : {"forecast_seasonal_naive"},
                 y : SeqUpTo(YValues, MaxY),
                 horizon : 0..MaxCallHorizon,
                 season_length : SeasonLengthArgs]
    /\ ret = NoReturn
    /\ req = NoRequest
    /\ resp = NoResponse
    /\ python \in Interpreters

CallSeasonalNaive ==
    /\ args.fn = "forecast_seasonal_naive"
    /\ ret = NoReturn
    /\ ret' = Return(forecast_seasonal_naive(args.y, args.horizon,
                                             args.season_length))
    /\ UNCHANGED <<req, resp, args, python>>

NextSeasonal == CallSeasonalNaive

SpecSeasonal == InitSeasonal /\ [][NextSeasonal]_vars

InitTrend ==
    /\ args \in [fn : {"forecast_linear_trend"},
                 y : SeqUpTo(TrendValues, MaxY)
                       \cup SeqUpTo(ExtremeValues, MaxExtreme)
                       \cup SeqUpTo(Tenths, MaxExtreme),
                 horizon : 0..MaxCallHorizon]
    /\ ret = NoReturn
    /\ req = NoRequest
    /\ resp = NoResponse
    /\ python \in Interpreters

CallLinearTrend ==
    /\ args.fn = "forecast_linear_trend"
    /\ ret = NoReturn
    /\ ret' = Return(forecast_linear_trend(args.y, args.horizon))
    /\ UNCHANGED <<req, resp, args, python>>

NextTrend == CallLinearTrend

SpecTrend == InitTrend /\ [][NextTrend]_vars

(***************************************************************************)
(* Properties of the endpoint                                              *)
(***************************************************************************)
Answered == resp # NoResponse

HistoryOk == Len(req.ds) = Len(req.y) /\ Len(req.ds) >= 2

HasSeasonLength ==
    req.config # None /\ "seasonLength" \in DOMAIN req.config

\* seasonLength is absent or an integer
IntegerSeasonLength == HasSeasonLength => req.config["seasonLength"].t = "int"

AcceptedRequest ==
    /\ HistoryOk
    /\ req.horizon >= 1
    /\ req.model \in ModelName
    /\ IntegerSeasonLength

ClientError == resp.status \in 400..499 /\ "points" \notin DOMAIN resp

Yhats == [k \in 1..Len(resp.points) |-> resp.points[k].yhat]

\* C1: every accepted request (equal-length history of at least 2
\* observations, horizon >= 1, model of the enumeration, integer or absent
\* seasonLength) is answered with exactly horizon points.
C1_PointsLengthIsHorizon ==
    (Answered /\ AcceptedRequest) =>
        (resp.status = 200 /\ Len(resp.points) = req.horizon)

\* C2: a request with len(ds) # len(y), fewer than 2 observations or
\* horizon < 1 is rejected with a 400-class error and no points.
C2_InvalidRequestRejected ==
    (Answered /\ (Len(req.ds) # Len(req.y) \/ Len(req.ds) < 2
                    \/ req.horizon < 1))
        => ClientError

C2_Witness ==
    /\ Answered
    /\ req.model \in ModelName
    /\ req.horizon >= 1
    /\ Len(req.ds) = 3
    /\ Len(req.y) = 2
    /\ resp.status = 400
    /\ resp.detail = "Training data length mismatch."

\* C3: every request ends either in a complete response of exactly horizon
\* points or in a reported client-input error (length mismatch,
\* insufficient history, unsupported model, horizon < 1) with no points;
\* nothing else can happen, whatever seasonLength holds.
C3_OnlyCompleteOrClientError ==
    Answered =>
        \/ resp.status = 200 /\ Len(resp.points) = req.horizon
        \/ /\ ClientError
           /\ \/ Len(req.ds) # Len(req.y)
              \/ Len(req.ds) < 2
              \/ req.model \notin ModelName
              \/ req.horizon < 1

\* seconds lies in the years 1..9999
InCalendar(seconds) ==
    LCmp(seconds, FirstSecond) >= 0 /\ LCmp(seconds, LastSecond) <= 0

\* predictions that a response can carry: the step exists, every projected
\* second lies in the calendar and every prediction is a finite number
Deliverable(preds) ==
    LET step == infer_step_seconds(req.ds)
    IN  /\ IsLong(step)
        /\ \A k \in 1..Len(preds) :
              /\ InCalendar(LAdd(req.ds[Len(req.ds)], LMul(step, Long(k))))
              /\ IsFinite(preds[k])

\* the response carries exactly the predictions preds; when they cannot be
\* delivered the request ends in an internal error
Carries(preds) ==
    IF Deliverable(preds) THEN resp.status = 200 /\ Yhats = preds
    ELSE resp.status = 500

\* C4: the seasonal selector yields forecast_seasonal_naive(y, horizon, s)
\* with s the configured seasonLength, 7 when config is absent or lacks the
\* key; the trend selector yields forecast_linear_trend(y, horizon); any
\* other selector is an unsupported-model error without points.
C4_Dispatch ==
    Answered =>
        /\ (AcceptedRequest /\ req.model = "ETS") =>
              Carries(forecast_seasonal_naive(req.y, req.horizon,
                          IF HasSeasonLength
                          THEN req.config["seasonLength"].i ELSE 7))
        /\ (AcceptedRequest /\ req.model = "PROPHET") =>
              Carries(forecast_linear_trend(req.y, req.horizon))
        /\ req.model \notin ModelName =>
              /\ ClientError
              /\ resp.status = 422 /\ "model" \in resp.detail
              /\ (HistoryOk /\ IsLong(infer_step_seconds(req.ds))) =>
                    forecast(req) =
                        HTTPException(400, "Unsupported model: ARIMA")

C4_Witness ==
    /\ Answered
    /\ AcceptedRequest
    /\ req.model = "ETS"
    /\ ~HasSeasonLength
    /\ Len(req.y) = DefaultSeasonLength + 1
    /\ req.horizon = 2
    /\ req.y[2] # req.y[Len(req.y)]
    /\ Yhats = <<req.y[2], req.y[3]>>

(***************************************************************************)
(* Properties of forecast_seasonal_naive                                   *)
(***************************************************************************)
SeasonalReturned == args.fn = "forecast_seasonal_naive" /\ ret.done

\* C5: with len(y) >= seasonLength >= 1 and horizon >= 1 the i-th
\* prediction (0-indexed) is window[i mod seasonLength], the window being
\* the last seasonLength values of y in their order.
C5_SeasonalWindowRepeats ==
    (/\ SeasonalReturned
     /\ args.season_length >= 1
     /\ Len(args.y) >= args.season_length
     /\ args.horizon >= 1)
        => /\ Len(ret.value) = args.horizon
           /\ \A i \in 0..(args.horizon - 1) :
                 ret.value[i + 1] =
                     args.y[Len(args.y) - args.season_length
                              + (i % args.season_length) + 1]

C5_Witness ==
    /\ SeasonalReturned
    /\ args.y = <<FromInt(1), FromInt(2), FromInt(3), FromInt(4)>>
    /\ args.season_length = 2
    /\ args.horizon = 4
    /\ ret.value = <<FromInt(3), FromInt(4), FromInt(3), FromInt(4)>>

\* C6: with a non-empty history shorter than the season length every one
\* of the horizon predictions is the last element of y.
C6_ShortHistoryRepeatsLast ==
    (/\ SeasonalReturned
     /\ args.y # << >>
     /\ Len(args.y) < args.season_length
     /\ args.horizon >= 1)
        => /\ Len(ret.value) = args.horizon
           /\ \A i \in 1..args.horizon : ret.value[i] = args.y[Len(args.y)]

C6_Witness ==
    /\ SeasonalReturned
    /\ args.y = <<FromInt(2), FromInt(5)>>
    /\ args.season_length = DefaultSeasonLength
    /\ args.horizon = 3
    /\ ret.value = <<FromInt(5), FromInt(5), FromInt(5)>>

(***************************************************************************)
(* Properties of forecast_linear_trend                                     *)
(***************************************************************************)
TrendReturned == args.fn = "forecast_linear_trend" /\ ret.done

RECURSIVE SumOver(_, _, _)
\* sum of f[i] for i in lo..hi
SumOver(f, lo, hi) == IF lo > hi THEN 0 ELSE f[lo] + SumOver(f, lo + 1, hi)

\* The least-squares line over positions 0..n-1 of integer values v, in
\* integers: with dx2[i] = 2 * (i - xmean) and dy[i] = n * (v[i] - ymean),
\*   slope = 2 * sum(dx2 * dy) / (n * sum(dx2 * dx2)).
OlsTotal(v) == SumOver(v, 1, Len(v))
OlsSlopeNum(v) ==
    LET n == Len(v)
    IN  2 * SumOver([k \in 1..n |->
                        (2 * (k - 1) - (n - 1)) * (n * v[k] - OlsTotal(v))],
                    1, n)
OlsSlopeDen(v) ==
    LET n == Len(v)
    IN  n * SumOver([k \in 1..n |->
                        (2 * (k - 1) - (n - 1)) * (2 * (k - 1) - (n - 1))],
                    1, n)

\* The least-squares value at position x is OlsNum(v, x) / OlsDen(v):
\* intercept + slope * x with intercept = ymean - slope * xmean.
OlsNum(v, x) ==
    2 * OlsSlopeDen(v) * OlsTotal(v)
      + Len(v) * OlsSlopeNum(v) * (2 * x - (Len(v) - 1))
OlsDen(v) == 2 * Len(v) * OlsSlopeDen(v)

\* |p - a / b| * 2^bits <= 1 for a float p and integers a and b > 0; every
\* quantity is scaled by b and by the power of two that clears p's exponent
WithinOf(p, a, b, bits) ==
    LET lhs == BShl(BMul(p.mant, BFromNat(b)), Max(p.exp, 0))
        rhs == BShl(BFromNat(Abs(a)), Max(-p.exp, 0))
        same == (p.sign = 1) = (a >= 0)
        diff == IF IsZero(p) THEN rhs
                ELSE IF a = 0 THEN lhs
                ELSE IF ~same THEN BAdd(lhs, rhs)
                ELSE IF BCmp(lhs, rhs) >= 0 THEN BSub(lhs, rhs)
                ELSE BSub(rhs, lhs)
    IN  BCmp(BShl(diff, bits), BShl(BFromNat(b), Max(-p.exp, 0))) <= 0

\* p = a / b exactly
ExactlyOf(p, a, b) ==
    IF a = 0 THEN IsZero(p)
    ELSE /\ ~IsZero(p)
         /\ (p.sign = 1) = (a > 0)
         /\ BCmp(BShl(BMul(p.mant, BFromNat(b)), Max(p.exp, 0)),
                 BShl(BFromNat(Abs(a)), Max(-p.exp, 0))) = 0

\* the integer a float of small size holds
IntegerOf(a) == LToInt(IntOfFloat(a))

\* a history on a line a + b * i
OnLine(v) == \A k \in 1..Len(v) : v[k] = v[1] + (v[2] - v[1]) * (k - 1)

\* binary places to which a prediction agrees with the exact value
ToleranceBits == MantBits - 13

\* histories of the small integers 1..4, whose least-squares line the
\* integers of the model checker can hold
SmallIntegers(y) == \A k \in 1..Len(y) : y[k] \in TrendValues

\* C7 as stated: for n >= 2 the j-th prediction (0-indexed) is exactly
\* intercept + slope * (n + j) of the least-squares line, consecutive
\* predictions differ exactly by the slope, a history on the line a + b*i
\* is continued on that line; for n = 1 every prediction is y[0].
C7_LinearTrendExact ==
    (TrendReturned /\ args.y # << >> /\ args.horizon >= 1
       /\ SmallIntegers(args.y)) =>
        LET n == Len(args.y)
            v == Evaluated([k \in 1..n |-> IntegerOf(args.y[k])])
        IN  /\ Len(ret.value) = args.horizon
            /\ n = 1 => \A j \in 1..args.horizon : ret.value[j] = args.y[1]
            /\ n >= 2 =>
                 /\ \A j \in 0..(args.horizon - 1) :
                       ExactlyOf(ret.value[j + 1], OlsNum(v, n + j), OlsDen(v))
                 /\ \A j \in 1..(args.horizon - 1) :
                       ExactlyOf(FSub(ret.value[j + 1], ret.value[j]),
                                 OlsSlopeNum(v), OlsSlopeDen(v))
                 /\ OnLine(v) =>
                       \A j \in 0..(args.horizon - 1) :
                           ret.value[j + 1] =
                               FromInt(v[1] + (v[2] - v[1]) * (n + j))

\* the least-squares line within reach of the exact one, for a history of
\* small integers
RoundedOnLine(y, horizon, value) ==
    LET n == Len(y)
        v == Evaluated([k \in 1..n |-> IntegerOf(y[k])])
    IN  /\ \A j \in 0..(horizon - 1) :
              WithinOf(value[j + 1], OlsNum(v, n + j), OlsDen(v),
                       ToleranceBits)
        /\ \A j \in 1..(horizon - 1) :
              WithinOf(FSub(value[j + 1], value[j]),
                       OlsSlopeNum(v), OlsSlopeDen(v), ToleranceBits)
        /\ OnLine(v) =>
              \A j \in 0..(horizon - 1) :
                  value[j + 1] = FromInt(v[1] + (v[2] - v[1]) * (n + j))

RECURSIVE FSumOver(_, _, _)
\* sum of f[i] for i in lo..hi in doubles, added to 0.0 in index order
FSumOver(f, lo, hi) ==
    IF lo > hi THEN Zero(1) ELSE FAdd(FSumOver(f, lo, hi - 1), f[hi])

\* the line of the claim in double arithmetic; position i of the claim
\* (from 0) is index i + 1 of y
LineOf(y) ==
    LET n == Len(y)
        xmean == FDiv(FromInt(n - 1), FromInt(2))
        ymean == FDiv(sum(y), FromInt(n))
        dx == Evaluated([k \in 1..n |-> FSub(FromInt(k - 1), xmean)])
        slope == FDiv(FSumOver([k \in 1..n |->
                                   FMul(dx[k], FSub(y[k], ymean))], 1, n),
                      FSumOver([k \in 1..n |-> FMul(dx[k], dx[k])], 1, n))
    IN  [slope |-> slope, intercept |-> FSub(ymean, FMul(slope, xmean))]

\* C7 (amended): the call returns horizon predictions.  For n >= 2 the
\* j-th prediction (0-indexed) is intercept + slope * (n + j) with slope =
\* sum((i - xmean) * (y[i] - ymean)) / sum((i - xmean)^2) and intercept =
\* ymean - slope * xmean, every operation rounded to a double, the sums
\* added in index order and ymean = sum(y) / n taken with the sum() of the
\* interpreter.  The predictions follow the exact least-squares line up to
\* that rounding only: for the histories of up to MaxY of the integers
\* 1..4 each lies within 2^-40 of the exact value, consecutive ones differ
\* by the slope to within 2^-40, and such a history on a line a + b*i is
\* continued exactly on that line; for a history whose sum leaves the
\* double range every prediction is nan.  For n = 1 every prediction is
\* y[0].
C7_LinearTrendRounded ==
    (TrendReturned /\ args.y # << >> /\ args.horizon >= 1) =>
        LET n == Len(args.y)
        IN  /\ Len(ret.value) = args.horizon
            /\ n = 1 => \A j \in 1..args.horizon : ret.value[j] = args.y[1]
            /\ n >= 2 =>
                  LET line == LineOf(args.y)
                  IN  \A j \in 0..(args.horizon - 1) :
                          ret.value[j + 1] =
                              FAdd(line.intercept,
                                   FMul(line.slope, FromInt(n + j)))
            /\ (n >= 2 /\ SmallIntegers(args.y)) =>
                  RoundedOnLine(args.y, args.horizon, ret.value)
            /\ (n >= 2 /\ ~IsFinite(sum(args.y))) =>
                  \A j \in 1..args.horizon : IsNaN(ret.value[j])

\* y = [1.0, 1.0, 2.0]: the exact value 7/3 is no double; the code returns
\* 2627099782632789 / 2^50 = 2.333333333333333
C7_Witness ==
    /\ TrendReturned
    /\ args.y = <<FromInt(1), FromInt(1), FromInt(2)>>
    /\ args.horizon = 1
    /\ ret.value = <<[cls |-> "finite", sign |-> 1,
                      mant |-> <<21845, 10922, 21845, 74>>,
                      exp |-> -50]>>

(***************************************************************************)
(* Properties of infer_step_seconds                                        *)
(***************************************************************************)
InferReturned == args.fn = "infer_step_seconds" /\ ret.done

\* the difference of the element at position i of ds to the one before
DiffAt(ds, i) == LSub(ds[i], ds[i - 1])

\* positions i of ds whose difference to the previous element is positive
PositiveAt(ds) == {i \in 2..Len(ds) : LCmp(DiffAt(ds, i), Long(0)) > 0}

\* the r-th smallest (r counted from 0) positive difference of ds
RankedDiff(ds, r) ==
    CHOOSE d \in {DiffAt(ds, i) : i \in PositiveAt(ds)} :
        /\ Cardinality({i \in PositiveAt(ds) :
                            LCmp(DiffAt(ds, i), d) < 0}) <= r
        /\ Cardinality({i \in PositiveAt(ds) :
                            LCmp(DiffAt(ds, i), d) <= 0}) > r

DiffCount(ds) == Cardinality(PositiveAt(ds))

\* C8: with at least one positive consecutive difference the call returns
\* the median of the positive differences: the middle one when their count
\* is odd, the arithmetic mean of the two central ones when it is even.
C8_MedianExactMean ==
    (InferReturned /\ DiffCount(args.ds) > 0) =>
        LET k == DiffCount(args.ds)
        IN  /\ IsLong(ret.value)
            /\ IF k % 2 = 1
               THEN ret.value = RankedDiff(args.ds, k \div 2)
               ELSE LMul(Long(2), ret.value) =
                        LAdd(RankedDiff(args.ds, k \div 2 - 1),
                             RankedDiff(args.ds, k \div 2))

\* C9: fewer than 2 timestamps, or no positive consecutive difference,
\* gives exactly 86400; every call returns an integer (none raises).
C9_DegenerateGivesDay ==
    InferReturned =>
        /\ IsLong(ret.value)
        /\ (Len(args.ds) < 2
              \/ \A i \in 2..Len(args.ds) :
                    LCmp(DiffAt(args.ds, i), Long(0)) <= 0)
             => ret.value = Long(86400)

(***************************************************************************)
(* Properties of the projected timestamps                                  *)
(***************************************************************************)
\* the number two or four decimal digits of t spell from position p
Num2(t, p) == 10 * DigitValue(t[p]) + DigitValue(t[p + 1])
Num4(t, p) == 100 * Num2(t, p) + Num2(t, p + 2)

IsIsoUtc(t) ==
    /\ Len(t) = 20
    /\ \A p \in {1, 2, 3, 4, 6, 7, 9, 10, 12, 13, 15, 16, 18, 19} :
          IsDigit(t[p])
    /\ t[5] = "-" /\ t[8] = "-" /\ t[11] = "T"
    /\ t[14] = ":" /\ t[17] = ":" /\ t[20] = "Z"
    /\ Num2(t, 6) \in 1..12 /\ Num2(t, 9) \in 1..31
    /\ Num2(t, 12) \in 0..23 /\ Num2(t, 15) \in 0..59 /\ Num2(t, 18) \in 0..59

\* days from 1970-01-01 to the proleptic Gregorian date year-month-day
DaysFromCivil(year, month, day) ==
    LET y == IF month <= 2 THEN year - 1 ELSE year
        era == y \div 400
        yoe == y - era * 400
        doy == (153 * (IF month > 2 THEN month - 3 ELSE month + 9) + 2) \div 5
                 + day - 1
        doe == yoe * 365 + yoe \div 4 - yoe \div 100 + doy
    IN  era * 146097 + doe - 719468

\* the epoch second a timestamp YYYY-MM-DDTHH:MM:SSZ denotes
EpochOfIso(t) ==
    LAdd(LMul(Long(DaysFromCivil(Num4(t, 1), Num2(t, 6), Num2(t, 9))),
              Long(86400)),
         Long(Num2(t, 12) * 3600 + Num2(t, 15) * 60 + Num2(t, 18)))

\* C10: the k-th point of a response (k from 1) is stamped with the epoch
\* second ds[last] + step * k, ds[last] being the final element of ds as
\* supplied and step = infer_step_seconds(ds); its yhat is the k-th
\* prediction of the dispatched forecaster, isFuture is true and no
\* lower or upper bound is set.
C10_TimestampProjection ==
    (Answered /\ resp.status = 200) =>
        LET preds == IF req.model = "ETS"
                     THEN forecast_seasonal_naive(req.y, req.horizon,
                              PyInt(ConfigGet(req.config, "seasonLength",
                                              IntVal(7))).value)
                     ELSE forecast_linear_trend(req.y, req.horizon)
            step == infer_step_seconds(req.ds)
        IN  /\ Len(resp.points) = Len(preds)
            /\ \A k \in 1..Len(resp.points) :
                  /\ IsIsoUtc(resp.points[k].t)
                  /\ EpochOfIso(resp.points[k].t) =
                         LAdd(req.ds[Len(req.ds)], LMul(step, Long(k)))
                  /\ resp.points[k].yhat = preds[k]
                  /\ resp.points[k].isFuture = TRUE
                  /\ resp.points[k].yhatLower = None
                  /\ resp.points[k].yhatUpper = None

C10_Witness ==
    /\ Answered
    /\ resp.status = 200
    /\ req.ds = <<Long(86400), Long(0), Long(100)>>
    /\ req.horizon = 3
    /\ resp.points[3].t =
           <<"1", "9", "7", "0", "-", "0", "1", "-", "0", "1", "T",
             "0", "0", ":", "0", "6", ":", "4", "0", "Z">>

(***************************************************************************)
(* Properties of the configuration                                         *)
(***************************************************************************)
Absent == [t |-> "absent"]

\* the value a config mapping holds under seasonLength, Absent if none
SeasonLengthOf(config) ==
    IF config # None /\ "seasonLength" \in DOMAIN config
    THEN config["seasonLength"] ELSE Absent

\* a request that passes validation on receipt and the history checks
PassesChecks == HistoryOk /\ req.horizon >= 1 /\ req.model \in ModelName

\* the smallest config with the seasonLength value of the given one
Canonical(config) ==
    IF SeasonLengthOf(config) = Absent THEN None
    ELSE [k \in {"seasonLength"} |-> SeasonLengthOf(config)]

\* C11: the response depends on the config only through the value of
\* seasonLength (other keys are ignored, never rejected), and for the trend
\* model it does not depend on the config at all.  Every request is
\* compared with the same request under one representative config (for the
\* trend model: no config); requests that agree with the same
\* representative agree with each other.
C11_ConfigNonInterference ==
    (Answered /\ PassesChecks) =>
        IF req.model = "PROPHET"
        THEN /\ ~ClientError
             /\ JSONResponse(forecast([req EXCEPT !.config = None])) = resp
        ELSE JSONResponse(
                 forecast([req EXCEPT !.config = Canonical(req.config)]))
               = resp

C11_Witness ==
    /\ Answered
    /\ PassesChecks
    /\ req.model = "ETS"
    /\ DOMAIN req.config = {"seasonLength", "other"}
    /\ req.config["seasonLength"] = IntVal(2)
    /\ req.y = <<FromInt(1), FromInt(3), FromInt(1)>>
    /\ req.horizon = 3
    /\ Yhats = <<FromInt(3), FromInt(1), FromInt(3)>>

(***************************************************************************)
(* Properties of the season-length clamp                                   *)
(***************************************************************************)
\* C12: for a non-empty history and horizon >= 1, a season length below 1
\* gives the result of season length 1: horizon predictions, each the last
\* element of y.
C12_SeasonLengthClamped ==
    (/\ SeasonalReturned
     /\ args.y # << >>
     /\ args.horizon >= 1
     /\ args.season_length < 1)
        => /\ ret.value = forecast_seasonal_naive(args.y, args.horizon, 1)
           /\ Len(ret.value) = args.horizon
           /\ \A i \in 1..args.horizon : ret.value[i] = args.y[Len(args.y)]

C12_Witness ==
    /\ SeasonalReturned
    /\ args.y = <<FromInt(4), FromInt(1), FromInt(2)>>
    /\ args.season_length = -1
    /\ args.horizon = 3
    /\ ret.value = <<FromInt(2), FromInt(2), FromInt(2)>>

(***************************************************************************)
(* Properties of the order of the points                                   *)
(***************************************************************************)
\* C13: in every response, also for an unsorted ds or one with duplicates,
\* the inferred step is an integer >= 1, the epoch seconds of the points
\* strictly increase in point order and each exceeds the last supplied
\* timestamp.
C13_PointsChronological ==
    (Answered /\ resp.status = 200) =>
        /\ LET step == infer_step_seconds(req.ds)
           IN  IsLong(step) /\ LCmp(step, Long(1)) >= 0
        /\ \A k \in 1..Len(resp.points) :
              LCmp(EpochOfIso(resp.points[k].t), req.ds[Len(req.ds)]) > 0
        /\ \A k \in 1..(Len(resp.points) - 1) :
              LCmp(EpochOfIso(resp.points[k].t),
                   EpochOfIso(resp.points[k + 1].t)) < 0

C13_Witness ==
    /\ Answered
    /\ resp.status = 200
    /\ req.ds = <<Long(100), Long(100), Long(0)>>
    /\ req.horizon = 2
    /\ EpochOfIso(resp.points[1].t) = Long(86400)
    /\ EpochOfIso(resp.points[2].t) = Long(172800)

====
